---- MODULE Spec2Model ----
(***************************************************************************)
(* Job-queue engine of the video subtitle scraper: the videos table, the   *)
(* queue manager's claim/release/recovery operations, the worker loop, the *)
(* worker manager and the application start-up, as state machine.          *)
(***************************************************************************)
EXTENDS Integers, FiniteSets, Sequences, TLC

(* ------------------------------ bounds --------------------------------- *)
NumVideos == 2
NumWorkers == 2
MaxRetriesBound == 2
\* attempts is capped in the guards of the failing steps
MaxAttempts == MaxRetriesBound + 1

Videos == 1..NumVideos
Workers == 1..NumWorkers
NoVideo == 0

Status == {"pending", "processing", "completed", "failed"}

(* ----------------------------- messages -------------------------------- *)
MsgNoSubs == "No native subtitles available"
MsgSaveFail == "Failed to save subtitle to database"
MsgLocked == "database is locked"
MsgCritical == "Critical worker error: database is locked"
Null == "null"

ErrorMessages == {MsgNoSubs, MsgSaveFail, MsgLocked, MsgCritical}

\* The indicator substrings (of both classifiers' lists) that occur in the
\* lower-cased message.
Markers(msg) ==
    CASE msg = MsgNoSubs -> {"no native subtitles"}
      [] msg = "Video unavailable" -> {"unavailable", "video unavailable"}
      [] msg = "Connection timeout" -> {"connection", "timeout"}
      [] msg = "Private video" -> {"private video"}
      [] msg = "No subtitles available" -> {"no subtitles available"}
      [] msg = "Age restricted" -> {"age restricted"}
      [] msg = "Video deleted" -> {"deleted"}
      [] msg = "Network error" -> {"network"}
      [] msg = "503 Service Unavailable" -> {"503", "unavailable"}
      [] msg = "Rate limit exceeded" -> {"rate limit"}
      [] msg = "Temporary failure" -> {"temporary"}
      [] msg = "Service unavailable" -> {"unavailable"}
      [] msg = "502 Bad Gateway" -> {"502"}
      [] msg = "HTTP Error 404: Not Found" -> {"not found"}
      [] OTHER -> {}

(* --------------------------- error classifiers ------------------------- *)
classify_permanent_indicators ==
    {"private video", "unavailable", "deleted", "no such file", "age restricted",
     "no subtitles available", "no native subtitles", "subtitles not available",
     "invalid url", "unknown video id"}

classify_transient_indicators ==
    {"timeout", "connection", "network", "temporary", "503", "502", "500",
     "rate limit", "quota exceeded"}

\* the two loops of classify_yt_dlp_error in the other order
classify_indicators_transient_first(found) ==
    IF found \cap classify_transient_indicators # {} THEN "TransientError"
    ELSE IF found \cap classify_permanent_indicators # {} THEN "PermanentError"
    ELSE "TransientError"

\* the two loops of classify_yt_dlp_error over the indicators found in the
\* lower-cased message, and its default
classify_indicators(found) ==
    IF found \cap classify_permanent_indicators # {} THEN "PermanentError"
    ELSE IF found \cap classify_transient_indicators # {} THEN "TransientError"
    ELSE "TransientError"

classify_yt_dlp_error(msg) == classify_indicators(Markers(msg))

\* error texts made of two parts, as in f"Transient error: {str(e)}"
TextParts ==
    {"Video unavailable", "Private video", "No subtitles available", "Age restricted",
     "Video deleted", "Connection timeout", "Network error", "503 Service Unavailable",
     "Rate limit exceeded", "Temporary failure", "Some unknown error", MsgLocked,
     "Service unavailable", "502 Bad Gateway", "HTTP Error 404: Not Found", MsgNoSubs}
Texts == TextParts \X TextParts
TextMarkers(text) == Markers(text[1]) \cup Markers(text[2])

transient_permanent_indicators ==
    {"not found", "http 404", "forbidden", "http 403", "private video",
     "video unavailable", "removed", "deleted"}

is_transient_error(msg) == Markers(msg) \cap transient_permanent_indicators = {}

\* is_transient_error over the indicators found in the lower-cased text: False
\* at a permanent indicator, True at a transient one and by default
is_transient_indicators(found) == found \cap transient_permanent_indicators = {}

(* ------------------------------- state --------------------------------- *)
\* channels table keys; a channel's url is its key
NumChannels == 2
Channels == 1..NumChannels
NoChannel == "no row"
ChannelNames == {"Loading...", "Title", "Unknown Channel", "Failed to load"}

\* an idle request handler and no ingestion thread, for every channel url
IdleTask == [pc |-> "idle", listing |-> {}, todo |-> {}, pending |-> {}, flushed |-> FALSE]
NoIngest == [c \in Channels |-> IdleTask]

VARIABLES
    db,          \* the store: videos table columns, subtitles, settings row
    worker,      \* per thread slot: position in SubtitleWorker.run and locals
    STOP_EVENT,  \* the process-wide threading.Event
    mgr,         \* the global worker_manager instance
    api,         \* the control plane: a stop request waiting in thread.join
    proc,        \* application process phase (lifespan)
    claimCount,  \* history: times a video id was returned by claim since last pending
    startStatus, \* history: videos.status when the process started
    recov,       \* history: recovery steps run since process start / last launch
    ingest,      \* per channel: its add_channel request and its detached ingestion task
    clock,       \* datetime.utcnow(), in days since the store was created
    reply,       \* the answer of the last logs-table operation
    backoff      \* history, per worker: seconds of retry delay it has still to sleep

vars == <<db, worker, STOP_EVENT, mgr, api, proc, claimCount, startStatus, recov, ingest, clock, reply, backoff>>

RecoverySteps == {"reset_processing", "reset_attempts", "reconcile"}

(* ------------------------ queue manager (store) ------------------------ *)
\* videos.status of an id that has no row (deleted by DELETE /videos/{id})
Absent == "absent"

Min(S) == CHOOSE x \in S : \A y \in S : x <= y

PendingVideos(d) == {v \in Videos : d.status[v] = "pending"}

\* claim_next_video, first statement: SELECT ... WHERE status='pending' ORDER BY id
claim_select(d) == IF PendingVideos(d) = {} THEN NoVideo ELSE Min(PendingVideos(d))

\* fault variant: an UPDATE ... WHERE id = :id without the status predicate
claim_update_rowcount_unguarded(d, v) == 1

\* claim_next_video, second statement: does the conditional UPDATE match a row
claim_update_rowcount(d, v) == IF d.status[v] = "pending" THEN 1 ELSE 0

\* fault variant: the UPDATE also counts an attempt
claim_update_counting(d, v) ==
    IF claim_update_rowcount(d, v) = 1
    THEN [d EXCEPT !.status[v] = "processing", !.attempts[v] = @ + 1]
    ELSE d

claim_update(d, v) ==
    IF claim_update_rowcount(d, v) = 1
    THEN [d EXCEPT !.status[v] = "processing"]
    ELSE d

\* fault variant: the retry test written as attempts <= max_retries
release_video_off_by_one(d, v, st, err) ==
    IF st = "failed"
    THEN LET a == d.attempts[v] + 1 IN
         [d EXCEPT !.attempts[v] = a,
                   !.last_error[v] = err,
                   !.status[v] = IF a <= d.max_retries THEN "pending" ELSE "failed"]
    ELSE d

\* the logs table as the number of WARN and ERROR rows tagged with each video
\* id; LogsOff is a store whose log rows are not tracked
LogsOff == << >>
NoLogs == [v \in Videos \cup {NoVideo} |-> [WARN |-> 0, ERROR |-> 0]]

\* the jobs table: the status of its one row, NoJob while there is no row;
\* JobOff is a store whose jobs table is not tracked (a row exists)
JobOff == "off"
NoJob == "none"
JobStatus == {"idle", "running", "paused"}

\* job = db.query(Job).first(); if not job: job = Job(); job.status = st
set_job_status(d, st) == IF d.job = JobOff THEN d ELSE [d EXCEPT !.job = st]

\* job = db.query(Job).first(); if job: job.status = st
update_job_status(d, st) == IF d.job \in {JobOff, NoJob} THEN d ELSE [d EXCEPT !.job = st]

\* log_to_db: one more row of this level tagged with video v
log_to_db(d, v, level) ==
    IF d.logs = LogsOff THEN d
    ELSE [d EXCEPT !.logs[v][level] = d.logs[v][level] + 1]

release_video(d, v, st, err) ==
    CASE d.status[v] = Absent -> d
      [] st = "failed" ->
           LET a == d.attempts[v] + 1
               d2 == [d EXCEPT !.attempts[v] = a,
                               !.last_error[v] = err,
                               !.status[v] = IF a < d.max_retries
                                             THEN "pending" ELSE "failed"]
           IN IF a < d.max_retries THEN d2 ELSE log_to_db(d2, v, "ERROR")
      [] st = "completed" ->
           [d EXCEPT !.status[v] = "completed",
                     !.completed_at[v] = TRUE,
                     !.last_error[v] = Null]
      [] st = "pending" -> [d EXCEPT !.status[v] = "pending"]
      [] OTHER -> d

reset_processing_videos(d) ==
    [d EXCEPT !.status = [v \in Videos |->
        IF d.status[v] = "processing" THEN "pending" ELSE d.status[v]]]

\* fault variant: WHERE v.status = 'pending'
reconcile_video_statuses_pending_only(d) ==
    [d EXCEPT !.status = [v \in Videos |->
                 IF v \in d.subs /\ d.status[v] = "pending"
                 THEN "completed" ELSE d.status[v]],
              !.completed_at = [v \in Videos |->
                 IF v \in d.subs /\ d.status[v] = "pending"
                 THEN TRUE ELSE d.completed_at[v]]]

\* fault variant: SET completed_at = CURRENT_TIMESTAMP alone
reconcile_video_statuses_timestamp_only(d) ==
    [d EXCEPT !.completed_at = [v \in Videos |->
                 IF v \in d.subs /\ d.status[v] # "completed"
                 THEN TRUE ELSE d.completed_at[v]]]

\* result.rowcount of the reconcile UPDATE: the 'completed' count it reports
reconcile_rowcount(d) ==
    Cardinality({v \in Videos : v \in d.subs /\ d.status[v] \notin {"completed", Absent}})

reconcile_video_statuses(d) ==
    [d EXCEPT !.status = [v \in Videos |->
                 IF v \in d.subs /\ d.status[v] \notin {"completed", Absent}
                 THEN "completed" ELSE d.status[v]],
              !.completed_at = [v \in Videos |->
                 IF v \in d.subs /\ d.status[v] \notin {"completed", Absent}
                 THEN TRUE ELSE d.completed_at[v]]]

\* fault variant: the reset without the test of the status
retry_failed_video_any_status(d, v) ==
    IF d.status[v] = Absent THEN d
    ELSE [d EXCEPT !.status[v] = "pending", !.attempts[v] = 0, !.last_error[v] = Null]

\* retry_video: the HTTP status of the response
retry_video_response(d, v) ==
    IF d.status[v] = Absent THEN 404
    ELSE IF d.status[v] # "failed" THEN 400
    ELSE 200

retry_failed_video(d, v) ==
    IF d.status[v] # "failed" THEN d
    ELSE [d EXCEPT !.status[v] = "pending", !.attempts[v] = 0, !.last_error[v] = Null]

\* fault variant: the subtitles are deleted, the video row is kept
delete_video_subtitles_only(d, v) == [d EXCEPT !.subs = d.subs \ {v}]

\* delete_video: db.delete(video) with the ORM cascade to its subtitles
delete_video(d, v) ==
    IF d.status[v] = Absent THEN d
    ELSE [d EXCEPT !.status[v] = Absent,
                   !.url[v] = 0,
                   !.channel_id[v] = 0,
                   !.attempts[v] = 0,
                   !.last_error[v] = Null,
                   !.completed_at[v] = FALSE,
                   !.subs = d.subs \ {v}]

(* ---------------------------- error handler ---------------------------- *)
schedule_retry(d, v, err) ==
    LET a == d.attempts[v] + 1
        d2 == [d EXCEPT !.attempts[v] = a,
                        !.last_error[v] = err,
                        !.status[v] = IF a < d.max_retries
                                      THEN "pending" ELSE "failed"]
    IN IF d.status[v] = Absent THEN log_to_db(d, v, "ERROR")
       ELSE log_to_db(d2, v, IF a < d.max_retries THEN "WARN" ELSE "ERROR")

mark_failed(d, v, err) ==
    IF d.status[v] = Absent THEN log_to_db(d, v, "ERROR") ELSE
    log_to_db([d EXCEPT !.status[v] = "failed",
                        !.last_error[v] = err,
                        !.attempts[v] = d.attempts[v] + 1], v, "ERROR")

\* fault variant: WHERE status = 'processing'
reset_retry_attempts_processing_only(d) ==
    [d EXCEPT !.attempts = [v \in Videos |->
        IF d.status[v] = "processing" THEN 0 ELSE d.attempts[v]]]

\* fault variant: no WHERE clause
reset_retry_attempts_every_row(d) ==
    [d EXCEPT !.attempts = [v \in Videos |-> 0]]

reset_retry_attempts(d) ==
    [d EXCEPT !.attempts = [v \in Videos |->
        IF d.status[v] \in {"pending", "processing"} THEN 0 ELSE d.attempts[v]]]

startup_reset_processing_videos(d) ==
    [d EXCEPT !.status = [v \in Videos |->
        IF d.status[v] = "processing" THEN "pending" ELSE d.status[v]]]

startup_recovery(d) == reset_retry_attempts(startup_reset_processing_videos(d))

(* -------------------------- subtitle processor ------------------------- *)
\* fetch_subtitle_text: every exception of the extractor is caught and turned
\* into (None, None); only a listing with subtitles yields a language.
ExtractorOutcomes == {"subtitles", "no_subtitles", "transient_error", "permanent_error"}

fetch_subtitle_text(o) == IF o = "subtitles" THEN "en" ELSE "None"

save_subtitle(d, v) == [d EXCEPT !.subs = d.subs \cup {v}]

\* on an id without a row the UPDATE matches nothing and the flush raises:
\* no write (also in _mark_video_failed)
mark_video_completed(d, v) ==
    IF d.status[v] = Absent THEN d ELSE
    [d EXCEPT !.status[v] = "completed", !.completed_at[v] = TRUE]

\* fault variant: _mark_video_failed honouring the retry budget
mark_video_failed_retrying(d, v, a, err) ==
    [d EXCEPT !.status[v] = IF a + 1 < d.max_retries THEN "pending" ELSE "failed",
              !.last_error[v] = err,
              !.attempts[v] = a + 1]

\* a is the attempts value the ORM object holds (loaded before the fetch)
mark_video_failed(d, v, a, err) ==
    IF d.status[v] = Absent THEN d ELSE
    [d EXCEPT !.status[v] = "failed", !.last_error[v] = err, !.attempts[v] = a + 1]

(* ------------------------------ initial state -------------------------- *)
ExpiredSnap == -1

IdleWorker == [pc |-> "dead", vid |-> NoVideo, snap |-> 0, err |-> Null, running |-> FALSE]

\* WorkerManager.__init__ (module import creates the global instance)
NewManager(n) ==
    [running |-> FALSE, startup_recovery_done |-> FALSE, workers |-> {}, num_workers |-> n]

IdleApi == [pc |-> "idle", n |-> 0]

\* a run in which the retry delays the workers owe are not tracked
BackoffOff == << >>

\* no logs-table operation has answered yet
NoReply ==
    [op |-> "none", arg |-> << >>, outcome |-> "returned", status |-> 0, deleted_logs |-> 0,
     value |-> 0]

NoRecov == [boot |-> {}, since |-> {}, launch |-> {}]

InitDb(r) ==
    [status |-> [v \in Videos |-> "pending"],
     attempts |-> [v \in Videos |-> 0],
     last_error |-> [v \in Videos |-> Null],
     completed_at |-> [v \in Videos |-> FALSE],
     subs |-> {},
     max_retries |-> r,
     logs |-> LogsOff,
     log_rows |-> << >>,
     job |-> JobOff,
     url |-> [v \in Videos |-> v],
     channel_id |-> [v \in Videos |-> 1],
     channel_name |-> [c \in Channels |-> IF c = 1 THEN "Title" ELSE NoChannel],
     total_videos |-> [c \in Channels |-> IF c = 1 THEN NumVideos ELSE 0],
     max_workers |-> 5,
     backoff_factor |-> 2,
     output_dir |-> "./subtitles"]

InitProcess ==
    /\ worker = [w \in Workers |-> IdleWorker]
    /\ STOP_EVENT = FALSE
    /\ mgr = NewManager(NumWorkers)
    /\ api = IdleApi
    /\ proc = "boot"
    /\ claimCount = [v \in Videos |-> 0]
    /\ startStatus = [v \in Videos |-> "pending"]
    /\ recov = NoRecov
    /\ ingest = NoIngest
    /\ clock = 0
    /\ reply = NoReply
    /\ backoff = BackoffOff

Init ==
    /\ \E r \in 0..MaxRetriesBound : db = InitDb(r)
    /\ InitProcess

\* the same start with the WARN and ERROR rows of every video counted
InitLogged ==
    /\ \E r \in 0..MaxRetriesBound : db = [InitDb(r) EXCEPT !.logs = NoLogs]
    /\ InitProcess

(* ------------------------------ history -------------------------------- *)
\* cv is the video id a claim returns in this step (NoVideo when none)
ClaimCountAfter(d, cv) ==
    [v \in Videos |->
        IF d.status[v] = "pending" THEN 0
        ELSE claimCount[v] + (IF v = cv THEN 1 ELSE 0)]

\* startup-recovery steps completed by lifespan since the process started
\* (boot), completed since the previous launch of workers (since), and
\* completed ahead of the latest launch (launch)
RecovRan(r, steps) ==
    [r EXCEPT !.boot = r.boot \cup steps, !.since = r.since \cup steps]

RecovLaunched(r, steps) == [r EXCEPT !.launch = r.since \cup steps, !.since = {}]

AttemptsBounded(d) == \A v \in Videos : d.attempts[v] <= MaxAttempts

(* ------------------------------ worker loop ---------------------------- *)
Holding == {"claimed", "fetch", "saved", "except", "raised", "critical"}

Holds(w, v) == worker[w].vid = v /\ worker[w].pc \in Holding

\* backoff_factor ** attempts, without the cap
get_retry_delay_uncapped(attempts, backoff_factor) == backoff_factor ^ attempts

\* get_retry_delay: min(backoff_factor ** attempts, 300)
get_retry_delay(attempts, backoff_factor) == Min({backoff_factor ^ attempts, 300})

\* The retry delay a worker owes: set when its processing of a video ends with
\* the video released as failed and back in the queue, cleared when it calls
\* claim_next_video. run() has no sleep between the release and the claim.

backoff_after(w) ==
    LET v == worker[w].vid IN
    IF backoff = BackoffOff THEN backoff
    ELSE IF worker[w].pc = "claim" THEN [backoff EXCEPT ![w] = 0]
    ELSE IF /\ worker[w].pc \in Holding \ {"claimed"}
            /\ worker'[w].pc = "loop"
            /\ db' # db
            /\ db'.status[v] = "pending"
         THEN [backoff EXCEPT ![w] = get_retry_delay(db'.attempts[v], db'.backoff_factor)]
    ELSE backoff

\* the SessionLocal() sessions a worker has opened and not yet closed at each
\* position: run's own session from the loop test to its db.close() before
\* process_video_safely (and in its outer except), and the session that
\* process_video_subtitles_standalone opens, hands to SubtitleProcessor and
\* closes in its finally
open_sessions(w) ==
    CASE worker[w].pc \in {"claim", "update", "claimed", "critical"} -> {"run"}
      [] worker[w].pc \in {"fetch", "saved", "except"} -> {"standalone"}
      [] OTHER -> {}

\* fetch_subtitle_text(video.url, preferred_langs) has been called and has not
\* returned
extractor_call_in_progress(w) == worker[w].pc = "fetch"

WorkerFrame == UNCHANGED <<STOP_EVENT, mgr, api, proc, ingest, clock, reply, startStatus, recov>>

\* fault variant: while self.running
LoopCheckRunningOnly(w) ==
    /\ worker[w].pc = "loop"
    /\ worker' = [worker EXCEPT ![w] =
          IF worker[w].running
          THEN [@ EXCEPT !.pc = "claim"]
          ELSE IdleWorker]
    /\ UNCHANGED <<db, claimCount>>
    /\ WorkerFrame
    /\ backoff' = backoff_after(w)

\* while self.running and not STOP_EVENT.is_set()
LoopCheck(w) ==
    /\ worker[w].pc = "loop"
    /\ worker' = [worker EXCEPT ![w] =
          IF worker[w].running /\ ~STOP_EVENT
          THEN [@ EXCEPT !.pc = "claim"]
          ELSE IdleWorker]
    /\ UNCHANGED <<db, claimCount>>
    /\ WorkerFrame
    /\ backoff' = backoff_after(w)

\* claim_next_video: the SELECT of the lowest pending id
ClaimSelect(w) ==
    /\ worker[w].pc = "claim"
    /\ worker' = [worker EXCEPT ![w] =
          IF claim_select(db) = NoVideo
          THEN [@ EXCEPT !.pc = "loop"]
          ELSE [@ EXCEPT !.pc = "update", !.vid = claim_select(db)]]
    /\ UNCHANGED <<db, claimCount>>
    /\ WorkerFrame
    /\ backoff' = backoff_after(w)

\* claim_next_video: the conditional UPDATE, commit or rollback, and the return
ClaimUpdate(w) ==
    /\ worker[w].pc = "update"
    /\ LET v == worker[w].vid
           won == claim_update_rowcount(db, v) = 1 IN
       /\ db' = claim_update(db, v)
       /\ worker' = [worker EXCEPT ![w] =
             IF won THEN [@ EXCEPT !.pc = "claimed"]
             ELSE [@ EXCEPT !.pc = "loop", !.vid = NoVideo]]
       /\ claimCount' = ClaimCountAfter(db', IF won THEN v ELSE NoVideo)
    /\ WorkerFrame
    /\ backoff' = backoff_after(w)

\* claim_next_video: the UPDATE or its commit raises; except Exception rolls
\* back and returns None
ClaimUpdateFault(w) ==
    /\ worker[w].pc = "update"
    /\ worker' = [worker EXCEPT ![w] = [@ EXCEPT !.pc = "loop", !.vid = NoVideo]]
    /\ claimCount' = ClaimCountAfter(db, NoVideo)
    /\ UNCHANGED db
    /\ WorkerFrame
    /\ backoff' = backoff_after(w)

\* run line 84 query, db.close(), process_video_subtitles_standalone loads the row
LoadVideo(w) ==
    /\ worker[w].pc = "claimed"
    /\ worker' = IF db.status[worker[w].vid] = Absent
                 THEN [worker EXCEPT ![w] =
                         [IdleWorker EXCEPT !.pc = "loop", !.running = worker[w].running]]
                 ELSE [worker EXCEPT ![w] =
                         [@ EXCEPT !.pc = "fetch", !.snap = db.attempts[worker[w].vid]]]
    /\ UNCHANGED <<db, claimCount>>
    /\ WorkerFrame
    /\ backoff' = backoff_after(w)

\* the store raises in run's own query: the outer except of run takes over
RunQueryError(w) ==
    /\ worker[w].pc = "claimed"
    /\ worker' = [worker EXCEPT ![w] = [@ EXCEPT !.pc = "critical", !.err = MsgLocked]]
    /\ UNCHANGED <<db, claimCount>>
    /\ WorkerFrame
    /\ backoff' = backoff_after(w)

\* the store raises while process_video_subtitles_standalone opens/loads:
\* process_video_safely classifies and re-raises to run's inner except
StandaloneError(w) ==
    /\ worker[w].pc = "claimed"
    /\ worker' = [worker EXCEPT ![w] = [@ EXCEPT !.pc = "raised", !.err = MsgLocked]]
    /\ UNCHANGED <<db, claimCount>>
    /\ WorkerFrame
    /\ backoff' = backoff_after(w)

LoadedAttempts(w) ==
    IF worker[w].snap = ExpiredSnap THEN db.attempts[worker[w].vid] ELSE worker[w].snap

BackToLoop(w) == [worker EXCEPT ![w] = [IdleWorker EXCEPT !.pc = "loop", !.running = worker[w].running]]

\* fetch_subtitle_text returns (None, None) for outcome o: _mark_video_failed
\* writes through the row object loaded before the fetch
FetchNone(w, o) ==
    /\ worker[w].pc = "fetch"
    /\ fetch_subtitle_text(o) = "None"
    /\ db' = log_to_db(mark_video_failed(db, worker[w].vid, LoadedAttempts(w),
                                         MsgNoSubs), worker[w].vid, "WARN")
    /\ worker' = BackToLoop(w)
    /\ AttemptsBounded(db')
    /\ claimCount' = ClaimCountAfter(db', NoVideo)
    /\ WorkerFrame
    /\ backoff' = backoff_after(w)

\* ... the commit of _mark_video_failed fails: rolled back and re-raised
FetchNoneFault(w, o) ==
    /\ worker[w].pc = "fetch"
    /\ fetch_subtitle_text(o) = "None"
    /\ worker' = [worker EXCEPT ![w] = [@ EXCEPT !.pc = "except", !.err = MsgLocked]]
    /\ UNCHANGED <<db, claimCount>>
    /\ WorkerFrame
    /\ backoff' = backoff_after(w)

\* fetch_subtitle_text returns a language and text: _save_subtitle commits
FetchSave(w, o) ==
    /\ worker[w].pc = "fetch"
    /\ fetch_subtitle_text(o) # "None"
    /\ db' = save_subtitle(db, worker[w].vid)
    /\ worker' = [worker EXCEPT ![w] = [@ EXCEPT !.pc = "saved", !.snap = ExpiredSnap]]
    /\ claimCount' = ClaimCountAfter(db', NoVideo)
    /\ WorkerFrame
    /\ backoff' = backoff_after(w)

\* ... _save_subtitle fails, rolls back and returns False: _mark_video_failed
FetchSaveFault(w, o) ==
    /\ worker[w].pc = "fetch"
    /\ fetch_subtitle_text(o) # "None"
    /\ db' = log_to_db(mark_video_failed(db, worker[w].vid,
                                         db.attempts[worker[w].vid], MsgSaveFail),
                       worker[w].vid, "ERROR")
    /\ worker' = BackToLoop(w)
    /\ AttemptsBounded(db')
    /\ claimCount' = ClaimCountAfter(db', NoVideo)
    /\ WorkerFrame
    /\ backoff' = backoff_after(w)

\* _mark_video_completed after the save
MarkVideoCompleted(w) ==
    /\ worker[w].pc = "saved"
    /\ db' = mark_video_completed(db, worker[w].vid)
    /\ worker' = BackToLoop(w)
    /\ claimCount' = ClaimCountAfter(db', NoVideo)
    /\ WorkerFrame
    /\ backoff' = backoff_after(w)

\* ... its commit fails: rolled back and re-raised
MarkVideoCompletedFault(w) ==
    /\ worker[w].pc = "saved"
    /\ worker' = [worker EXCEPT ![w] = [@ EXCEPT !.pc = "except", !.err = MsgLocked]]
    /\ UNCHANGED <<db, claimCount>>
    /\ WorkerFrame
    /\ backoff' = backoff_after(w)

\* process_video_subtitles, except branch (lines 82-99); release_video returns
\* False without a change when its own transaction fails
ProcessorExcept(w, fault) ==
    /\ worker[w].pc = "except"
    /\ LET v == worker[w].vid IN
       db' = IF is_transient_error(worker[w].err)
             THEN IF fault \/ db.status[v] = Absent
                  THEN log_to_db(db, v, "ERROR")
                  ELSE log_to_db(release_video(db, v, "failed", worker[w].err),
                                 v, "WARN")
             ELSE IF fault THEN db
                  ELSE log_to_db(mark_video_failed(db, v, db.attempts[v],
                                                   worker[w].err), v, "ERROR")
    /\ worker' = BackToLoop(w)
    /\ AttemptsBounded(db')
    /\ claimCount' = ClaimCountAfter(db', NoVideo)
    /\ WorkerFrame
    /\ backoff' = backoff_after(w)

\* handle_worker_exception for the exception process_video_safely raised
HandleWorkerException(w) ==
    /\ worker[w].pc = "raised"
    /\ LET v == worker[w].vid IN
       db' = LET level == IF classify_yt_dlp_error(worker[w].err) = "PermanentError"
                          THEN "ERROR" ELSE "WARN"
                 d1 == log_to_db(db, v, level)
                 d2 == IF level = "ERROR"
                       THEN mark_failed(d1, v, worker[w].err)
                       ELSE schedule_retry(d1, v, worker[w].err)
             IN log_to_db(d2, v, "ERROR")
    /\ worker' = BackToLoop(w)
    /\ AttemptsBounded(db')
    /\ claimCount' = ClaimCountAfter(db', NoVideo)
    /\ WorkerFrame
    /\ backoff' = backoff_after(w)

\* run's outer except: release_video(db, video_id, 'failed', "Critical worker error: ...")
CriticalRelease(w) ==
    /\ worker[w].pc = "critical"
    /\ db' = release_video(db, worker[w].vid, "failed", MsgCritical)
    /\ worker' = BackToLoop(w)
    /\ AttemptsBounded(db')
    /\ claimCount' = ClaimCountAfter(db', NoVideo)
    /\ WorkerFrame
    /\ backoff' = backoff_after(w)

\* the worker loop while the store answers every statement
CoreStep(w) ==
    \/ LoopCheck(w)
    \/ ClaimSelect(w)
    \/ ClaimUpdate(w)
    \/ LoadVideo(w)
    \/ \E o \in ExtractorOutcomes : FetchNone(w, o) \/ FetchSave(w, o)
    \/ MarkVideoCompleted(w)

\* a statement of the subtitle processor fails (locked database, lost commit)
FaultStep(w) ==
    \/ \E o \in ExtractorOutcomes : FetchNoneFault(w, o) \/ FetchSaveFault(w, o)
    \/ MarkVideoCompletedFault(w)
    \/ \E fault \in BOOLEAN : ProcessorExcept(w, fault)

\* a statement of run or of process_video_subtitles_standalone fails
OuterStep(w) ==
    \/ RunQueryError(w)
    \/ StandaloneError(w)
    \/ HandleWorkerException(w)
    \/ CriticalRelease(w)

WorkerStep(w) == CoreStep(w) \/ FaultStep(w) \/ OuterStep(w)

(* ---------------------------- worker manager -------------------------- *)
DeadSlots == {w \in Workers : worker[w].pc = "dead"}

\* the n lowest free thread slots
RECURSIVE LowestSlots(_, _)
LowestSlots(S, n) ==
    IF n = 0 \/ S = {} THEN {}
    ELSE {Min(S)} \cup LowestSlots(S \ {Min(S)}, n - 1)

\* start_workers(num_workers): a given num_workers installs a new WorkerManager;
\* WorkerManager.start returns at once when that manager is already running.
StartTarget(n) == IF n # 0 THEN NewManager(n) ELSE mgr

StartWorkers(n) ==
    LET m == StartTarget(n)
        fresh == LowestSlots(DeadSlots, m.num_workers)
        recovering == ~m.startup_recovery_done IN
    IF m.running
    THEN /\ mgr' = m
         /\ db' = set_job_status(db, "running")
         /\ UNCHANGED <<worker, STOP_EVENT, claimCount, recov>>
    ELSE /\ Cardinality(DeadSlots) >= m.num_workers
         /\ db' = set_job_status(IF recovering THEN startup_recovery(db) ELSE db,
                                 "running")
         /\ STOP_EVENT' = FALSE
         /\ mgr' = [m EXCEPT !.running = TRUE,
                             !.startup_recovery_done = TRUE,
                             !.workers = m.workers \cup fresh]
         /\ worker' = [w \in Workers |->
               IF w \in fresh
               THEN [IdleWorker EXCEPT !.pc = "loop", !.running = TRUE]
               ELSE worker[w]]
         /\ claimCount' = ClaimCountAfter(db', NoVideo)
         /\ recov' = RecovLaunched(recov,
               IF recovering THEN {"reset_processing", "reset_attempts"} ELSE {})

\* WorkerManager.stop up to the joins: raise the stop signal
StopSignal ==
    /\ STOP_EVENT' = TRUE
    /\ mgr' = [mgr EXCEPT !.running = FALSE]
    /\ worker' = [w \in Workers |->
          IF w \in mgr.workers THEN [worker[w] EXCEPT !.running = FALSE] ELSE worker[w]]

\* thread.join(timeout) returns for every thread: it has exited, or the 30 s
\* budget ran out on a thread blocked in the extractor call
JoinsReturn == \A w \in mgr.workers : worker[w].pc \in {"dead", "fetch"}

(* ----------------------------- control plane --------------------------- *)
ApiReady == proc = "up" /\ api.pc = "idle"

\* POST /jobs/stop
StopJobs ==
    /\ ApiReady
    /\ db' = IF db.job = NoJob THEN db
             ELSE reset_processing_videos(update_job_status(db, "idle"))
    /\ claimCount' = ClaimCountAfter(db', NoVideo)
    /\ UNCHANGED <<worker, STOP_EVENT, mgr, api, proc, ingest, clock, reply, backoff, startStatus, recov>>

\* POST /jobs/start
StartJobs ==
    /\ ApiReady
    /\ db' = set_job_status(db, "running")
    /\ UNCHANGED <<worker, STOP_EVENT, mgr, api, proc, ingest, clock, reply, backoff, claimCount, startStatus, recov>>

\* POST /jobs/pause (404 without a job row)
PauseJobs ==
    /\ ApiReady
    /\ db' = update_job_status(db, "paused")
    /\ UNCHANGED <<worker, STOP_EVENT, mgr, api, proc, ingest, clock, reply, backoff, claimCount, startStatus, recov>>

\* POST /jobs/resume (404 without a job row)
ResumeJobs ==
    /\ ApiReady
    /\ db' = update_job_status(db, "running")
    /\ UNCHANGED <<worker, STOP_EVENT, mgr, api, proc, ingest, clock, reply, backoff, claimCount, startStatus, recov>>

\* POST /jobs/reconcile
ReconcileQueue ==
    /\ ApiReady
    /\ db' = reset_processing_videos(reconcile_video_statuses(db))
    /\ claimCount' = ClaimCountAfter(db', NoVideo)
    /\ UNCHANGED <<worker, STOP_EVENT, mgr, api, proc, ingest, clock, reply, backoff, startStatus, recov>>

\* POST /videos/{id}/retry
RetryVideo(v) ==
    /\ ApiReady
    /\ db' = retry_failed_video(db, v)
    /\ claimCount' = ClaimCountAfter(db', NoVideo)
    /\ UNCHANGED <<worker, STOP_EVENT, mgr, api, proc, ingest, clock, reply, backoff, startStatus, recov>>

\* DELETE /videos/{id}
DeleteVideo(v) ==
    /\ ApiReady
    /\ db.status[v] # Absent
    /\ db' = delete_video(db, v)
    /\ claimCount' = ClaimCountAfter(db', NoVideo)
    /\ UNCHANGED <<worker, STOP_EVENT, mgr, api, proc, ingest, clock, reply, backoff, startStatus, recov>>

\* the body of POST /jobs/settings: the fields in given are not None
SettingsFields == {"max_workers", "max_retries", "backoff_factor", "output_dir"}

SettingsUpdate ==
    [given : SUBSET SettingsFields,
     max_workers : {0, 1, NumWorkers, 20, 21},
     max_retries : {-1, 0, MaxRetriesBound, 10, 11},
     backoff_factor : {0, 1, 3, 10, 11},
     output_dir : {"/data"}]

\* some range test of update_settings raises HTTPException(400)
settings_out_of_range(req) ==
    \/ "max_workers" \in req.given /\ (req.max_workers < 1 \/ req.max_workers > 20)
    \/ "max_retries" \in req.given /\ (req.max_retries < 0 \/ req.max_retries > 10)
    \/ "backoff_factor" \in req.given
          /\ (req.backoff_factor < 1 \/ req.backoff_factor > 10)

\* update_settings: the HTTPException(400) of a range test is raised inside the
\* try block, whose except Exception rolls back and raises HTTPException(500)
update_settings_status(d, req) == IF settings_out_of_range(req) THEN 500 ELSE 200

update_settings(d, req) ==
    IF settings_out_of_range(req) THEN d
    ELSE [d EXCEPT
            !.max_workers = IF "max_workers" \in req.given THEN req.max_workers ELSE @,
            !.max_retries = IF "max_retries" \in req.given THEN req.max_retries ELSE @,
            !.backoff_factor =
                IF "backoff_factor" \in req.given THEN req.backoff_factor ELSE @,
            !.output_dir = IF "output_dir" \in req.given THEN req.output_dir ELSE @]

\* POST /jobs/settings with body req
PostSettings(req) ==
    /\ ApiReady
    /\ db' = update_settings(db, req)
    /\ UNCHANGED <<worker, STOP_EVENT, mgr, api, proc, ingest, clock, reply, backoff, claimCount, startStatus, recov>>

\* POST /jobs/settings {max_retries: r}
UpdateSettings(r) ==
    /\ ApiReady
    /\ r # db.max_retries
    /\ db' = [db EXCEPT !.max_retries = r]
    /\ UNCHANGED <<worker, STOP_EVENT, mgr, api, proc, ingest, clock, reply, backoff, claimCount, startStatus, recov>>

\* POST /jobs/workers/start
WorkersStart(n) ==
    /\ ApiReady
    /\ StartWorkers(n)
    /\ UNCHANGED <<api, proc, ingest, clock, reply, backoff, startStatus>>

\* POST /jobs/workers/stop on a manager that is not running: only the reset
WorkersStopIdle ==
    /\ ApiReady
    /\ ~mgr.running
    /\ db' = reset_processing_videos(update_job_status(db, "idle"))
    /\ claimCount' = ClaimCountAfter(db', NoVideo)
    /\ UNCHANGED <<worker, STOP_EVENT, mgr, api, proc, ingest, clock, reply, backoff, startStatus, recov>>

\* POST /jobs/workers/stop and /restart on a running manager, up to the joins
WorkersStopBegin(restart, n) ==
    /\ ApiReady
    /\ mgr.running
    /\ StopSignal
    /\ api' = [pc |-> IF restart THEN "restart_joining" ELSE "joining", n |-> n]
    /\ UNCHANGED <<db, proc, ingest, clock, reply, backoff, claimCount, startStatus, recov>>

\* ... the joins have returned: final cleanup, lists cleared, endpoint's reset
WorkersStopEnd ==
    /\ api.pc = "joining"
    /\ JoinsReturn
    /\ db' = reset_processing_videos(
                 update_job_status(reset_processing_videos(db), "idle"))
    /\ mgr' = [mgr EXCEPT !.workers = {}]
    /\ api' = IdleApi
    /\ claimCount' = ClaimCountAfter(db', NoVideo)
    /\ UNCHANGED <<worker, STOP_EVENT, proc, ingest, clock, reply, backoff, startStatus, recov>>

\* restart_workers: stop_workers() has returned, the 2 s pause begins
RestartStopEnd ==
    /\ api.pc = "restart_joining"
    /\ JoinsReturn
    /\ db' = reset_processing_videos(db)
    /\ mgr' = [mgr EXCEPT !.workers = {}]
    /\ api' = [api EXCEPT !.pc = "restart_pause"]
    /\ claimCount' = ClaimCountAfter(db', NoVideo)
    /\ UNCHANGED <<worker, STOP_EVENT, proc, ingest, clock, reply, backoff, startStatus, recov>>

\* restart_workers: start_workers(num_workers) after the pause
RestartStart ==
    /\ api.pc = "restart_pause"
    /\ StartWorkers(api.n)
    /\ api' = IdleApi
    /\ UNCHANGED <<proc, ingest, clock, reply, backoff, startStatus>>

\* POST /jobs/workers/restart when the manager is not running
RestartIdle(n) ==
    /\ ApiReady
    /\ ~mgr.running
    /\ StartWorkers(n)
    /\ UNCHANGED <<api, proc, ingest, clock, reply, backoff, startStatus>>

(* ------------------------------ ingestion ------------------------------ *)
\* video urls are numbered like the rows that can hold them
Urls == Videos

VideoRows(d) == {v \in Videos : d.status[v] # Absent}
video_by_url(d, u) == {v \in VideoRows(d) : d.url[v] = u}
channel_video_count(d, c) == Cardinality({v \in VideoRows(d) : d.channel_id[v] = c})

\* delete_channel: db.delete(channel) with the ORM cascade to the channel's
\* videos and from each video to its subtitles
delete_channel(d, c) ==
    LET gone == {v \in VideoRows(d) : d.channel_id[v] = c} IN
    [d EXCEPT !.channel_name[c] = NoChannel,
              !.total_videos[c] = 0,
              !.status = [v \in Videos |-> IF v \in gone THEN Absent ELSE d.status[v]],
              !.url = [v \in Videos |-> IF v \in gone THEN 0 ELSE d.url[v]],
              !.channel_id = [v \in Videos |-> IF v \in gone THEN 0 ELSE d.channel_id[v]],
              !.attempts = [v \in Videos |-> IF v \in gone THEN 0 ELSE d.attempts[v]],
              !.last_error = [v \in Videos |-> IF v \in gone THEN Null ELSE d.last_error[v]],
              !.completed_at = [v \in Videos |-> IF v \in gone THEN FALSE ELSE d.completed_at[v]],
              !.subs = d.subs \ gone]

\* DELETE /channels/{id}; 404 without a change when the channel has no row
DeleteChannel(c) ==
    /\ ApiReady
    /\ db.channel_name[c] # NoChannel
    /\ db' = delete_channel(db, c)
    /\ claimCount' = ClaimCountAfter(db', NoVideo)
    /\ UNCHANGED <<worker, STOP_EVENT, mgr, api, proc, ingest, clock, reply, backoff, startStatus, recov>>

\* the INSERTs of one commit: a pending row under channel c for every url of U,
\* on the next free ids
RECURSIVE insert_videos(_, _, _)
insert_videos(d, c, U) ==
    IF U = {} \/ VideoRows(d) = Videos THEN d
    ELSE LET u == Min(U)
             v == Min(Videos \ VideoRows(d))
         IN insert_videos([d EXCEPT !.status[v] = "pending",
                                    !.attempts[v] = 0,
                                    !.last_error[v] = Null,
                                    !.completed_at[v] = FALSE,
                                    !.url[v] = u,
                                    !.channel_id[v] = c], c, U \ {u})

\* fault variant: a videos table without the UNIQUE constraint on url
unique_url_violated_never(d, U) == FALSE

\* the commit raises IntegrityError when a url of U is in the table by now
unique_url_violated(d, U) == \E u \in U : video_by_url(d, u) # {}

\* get_channel_ingestion_status: the status field of the answer
ingestion_status(d, c) ==
    IF d.channel_name[c] = NoChannel THEN "404"
    ELSE IF d.channel_name[c] = "Loading..." THEN "loading"
    ELSE IF channel_video_count(d, c) > 0 THEN "completed"
    ELSE "failed"

IngestFrame ==
    UNCHANGED <<worker, STOP_EVENT, mgr, api, proc, claimCount, startStatus, recov, clock, reply, backoff>>

TaskAt(c, pc) == ingest[c].pc = pc
TaskTo(c, pc) == [ingest EXCEPT ![c].pc = pc]

\* POST /channels {url: c}: get_or_create_channel flushes a new row, the
\* ingestion thread is started, the commit comes after the loop over the urls
\* (one request per channel url in a run of the process; L is the listing the
\* extractor has for this channel)
AddChannel(c, L) ==
    /\ ApiReady
    /\ ingest[c].pc = "idle"
    /\ ~ingest[c].flushed
    /\ ingest' = [ingest EXCEPT ![c] = [IdleTask EXCEPT
                      !.pc = "start",
                      !.listing = L,
                      !.flushed = (db.channel_name[c] = NoChannel)]]
    /\ UNCHANGED db
    /\ IngestFrame

\* add_channel: db.commit() of the new channel row, the request returns and
\* get_db closes its session
AddChannelCommit(c) ==
    /\ ingest[c].flushed
    /\ db' = [db EXCEPT !.channel_name[c] = "Loading...", !.total_videos[c] = 0]
    /\ ingest' = [ingest EXCEPT ![c].flushed = FALSE]
    /\ IngestFrame

\* the thread evaluates channel.id and ingest_channel_videos_sync loads the
\* channel in its own session: no row is visible before the request's commit
\* ("Channel not found", return 0); after the request's session is closed
\* (detached) the expired channel object cannot be read and the thread ends
TaskStart(c, detached) ==
    /\ TaskAt(c, "start")
    /\ detached => ~ingest[c].flushed
    /\ ingest' = TaskTo(c, IF db.channel_name[c] = NoChannel \/ detached
                           THEN "done" ELSE "meta")
    /\ UNCHANGED db
    /\ IngestFrame

\* the placeholder name is replaced by the title get_channel_info returns
\* ('Unknown Channel' when the extractor failed) and committed at once
TaskMeta(c, title) ==
    /\ TaskAt(c, "meta")
    /\ db' = IF db.channel_name[c] = "Loading..."
             THEN [db EXCEPT !.channel_name[c] = title] ELSE db
    /\ ingest' = TaskTo(c, "list")
    /\ IngestFrame

\* ... both commits of the name fail: the outer except takes over
TaskMetaFault(c) ==
    /\ TaskAt(c, "meta")
    /\ db.channel_name[c] = "Loading..."
    /\ ingest' = TaskTo(c, "fatal")
    /\ UNCHANGED db
    /\ IngestFrame

\* extract_video_entries returns the channel's listing
TaskList(c) ==
    /\ TaskAt(c, "list")
    /\ ingest' = [ingest EXCEPT ![c].pc = "insert", ![c].todo = ingest[c].listing]
    /\ UNCHANGED db
    /\ IngestFrame

\* extract_video_entries raises
TaskListFault(c) ==
    /\ TaskAt(c, "list")
    /\ ingest' = TaskTo(c, "fatal")
    /\ UNCHANGED db
    /\ IngestFrame

\* one entry of the listing: db.add(Video(...)) unless a row with the url exists
TaskInsert(c) ==
    /\ TaskAt(c, "insert")
    /\ ingest[c].todo # {}
    /\ LET u == Min(ingest[c].todo) IN
       ingest' = [ingest EXCEPT
                    ![c].todo = @ \ {u},
                    ![c].pending = IF video_by_url(db, u) = {} THEN @ \cup {u} ELSE @]
    /\ UNCHANGED db
    /\ IngestFrame

\* the final commit of the added rows
TaskCommit(c) ==
    /\ TaskAt(c, "insert")
    /\ ingest[c].todo = {}
    /\ IF unique_url_violated(db, ingest[c].pending)
       THEN /\ ingest' = TaskTo(c, "fatal")
            /\ UNCHANGED db
       ELSE /\ db' = insert_videos(db, c, ingest[c].pending)
            /\ ingest' = [ingest EXCEPT ![c].pc = "count", ![c].pending = {}]
    /\ claimCount' = ClaimCountAfter(db', NoVideo)
    /\ UNCHANGED <<worker, STOP_EVENT, mgr, api, proc, startStatus, recov, clock, reply, backoff>>

\* ... the final commit fails (locked database)
TaskCommitFault(c) ==
    /\ TaskAt(c, "insert")
    /\ ingest[c].todo = {}
    /\ ingest' = TaskTo(c, "fatal")
    /\ UNCHANGED db
    /\ IngestFrame

\* channel.total_videos = count of the channel's rows; commit; return
TaskCount(c) ==
    /\ TaskAt(c, "count")
    /\ db' = [db EXCEPT !.total_videos[c] = channel_video_count(db, c)]
    /\ ingest' = TaskTo(c, "done")
    /\ IngestFrame

\* the outer except: rollback, the failure name when the name is still the
\* placeholder, one ERROR row without a video id; return 0
TaskFatal(c) ==
    /\ TaskAt(c, "fatal")
    /\ db' = log_to_db(IF db.channel_name[c] = "Loading..."
                       THEN [db EXCEPT !.channel_name[c] = "Failed to load"]
                       ELSE db, NoVideo, "ERROR")
    /\ ingest' = [ingest EXCEPT ![c].pc = "failed", ![c].pending = {}]
    /\ IngestFrame

\* the thread of channel c has ended
TaskFinished(c) == ingest[c].pc \in {"done", "failed"}

IngestStep(c) ==
    \/ \E L \in SUBSET Urls : AddChannel(c, L)
    \/ AddChannelCommit(c)
    \/ \E detached \in BOOLEAN : TaskStart(c, detached)
    \/ \E title \in {"Title", "Unknown Channel"} : TaskMeta(c, title)
    \/ TaskList(c)
    \/ TaskInsert(c)
    \/ TaskCommit(c)
    \/ TaskCount(c)

IngestFault(c) ==
    \/ TaskMetaFault(c)
    \/ TaskListFault(c)
    \/ TaskCommitFault(c)
    \/ TaskFatal(c)

(* ------------------------- process start and kill ---------------------- *)
\* the process is killed: threads and in-memory state are gone, the store stays
Crash ==
    /\ worker' = [w \in Workers |-> IdleWorker]
    /\ STOP_EVENT' = FALSE
    /\ mgr' = NewManager(NumWorkers)
    /\ api' = IdleApi
    /\ proc' = "boot"
    /\ startStatus' = db.status
    /\ recov' = NoRecov
    /\ ingest' = NoIngest
    /\ UNCHANGED <<db, claimCount, clock, reply, backoff>>

LifespanFrame == UNCHANGED <<worker, STOP_EVENT, mgr, api, ingest, clock, reply, backoff>>

\* lifespan: startup_recovery(), first statement
LifespanResetProcessing ==
    /\ proc = "boot"
    /\ db' = startup_reset_processing_videos(db)
    /\ proc' = "reset"
    /\ claimCount' = ClaimCountAfter(db', NoVideo)
    /\ recov' = RecovRan(recov, {"reset_processing"})
    /\ UNCHANGED startStatus
    /\ LifespanFrame

\* lifespan: startup_recovery(), second statement
LifespanResetAttempts ==
    /\ proc = "reset"
    /\ db' = reset_retry_attempts(db)
    /\ proc' = "recovered"
    /\ claimCount' = ClaimCountAfter(db', NoVideo)
    /\ recov' = RecovRan(recov, {"reset_attempts"})
    /\ UNCHANGED startStatus
    /\ LifespanFrame

\* fault variant: lifespan without its reconcile step
LifespanWithoutReconcile ==
    /\ proc = "recovered"
    /\ proc' = "up"
    /\ UNCHANGED <<db, claimCount, startStatus, recov>>
    /\ LifespanFrame

\* lifespan: reconcile_video_statuses(db), then the application serves requests
LifespanReconcile ==
    /\ proc = "recovered"
    /\ db' = reconcile_video_statuses(db)
    /\ proc' = "up"
    /\ claimCount' = ClaimCountAfter(db', NoVideo)
    /\ recov' = RecovRan(recov, {"reconcile"})
    /\ UNCHANGED startStatus
    /\ LifespanFrame

Lifespan == LifespanResetProcessing \/ LifespanResetAttempts \/ LifespanReconcile

(* ----------------------------- specifications -------------------------- *)
\* The queue under concurrent workers and the operator's queue endpoints.
Next ==
    \/ Lifespan
    \/ \E n \in 0..NumWorkers : WorkersStart(n)
    \/ \E w \in Workers : CoreStep(w) \/ ClaimUpdateFault(w)
    \/ StopJobs
    \/ ReconcileQueue
    \/ \E v \in Videos : RetryVideo(v)

Spec == Init /\ [][Next]_vars

\* POST /jobs/workers/start?num_workers=1, once
SoloStart ==
    /\ DeadSlots = Workers
    /\ WorkersStart(1)

\* One worker, every failure path of the worker, and the settings endpoint.
NextRetry ==
    \/ Lifespan
    \/ SoloStart
    \/ \E w \in Workers : WorkerStep(w)
    \/ \E r \in 0..MaxRetriesBound : UpdateSettings(r)

SpecRetry == Init /\ [][NextRetry]_vars

\* one worker with every fault, the retry delay each worker owes tracked
InitBackoff ==
    /\ \E r \in 0..MaxRetriesBound : db = InitDb(r)
    /\ worker = [w \in Workers |-> IdleWorker]
    /\ STOP_EVENT = FALSE
    /\ mgr = NewManager(NumWorkers)
    /\ api = IdleApi
    /\ proc = "boot"
    /\ claimCount = [v \in Videos |-> 0]
    /\ startStatus = [v \in Videos |-> "pending"]
    /\ recov = NoRecov
    /\ ingest = NoIngest
    /\ clock = 0
    /\ reply = NoReply
    /\ backoff = [w \in Workers |-> 0]

NextBackoff ==
    \/ Lifespan
    \/ SoloStart
    \/ \E w \in Workers : WorkerStep(w)

SpecBackoff == InitBackoff /\ [][NextBackoff]_vars

\* Process kills and restarts around one worker, and the operator's retry.
NextBoot ==
    \/ Crash
    \/ Lifespan
    \/ SoloStart
    \/ \E w \in Workers : CoreStep(w) \/ FaultStep(w)
    \/ \E v \in Videos : RetryVideo(v)

SpecBoot == Init /\ [][NextBoot]_vars

\* The worker manager's start, stop and restart in one run of the process.
NextLaunch ==
    \/ Lifespan
    \/ \E n \in 0..NumWorkers : WorkersStart(n)
    \/ WorkersStopIdle
    \/ \E n \in 0..NumWorkers : WorkersStopBegin(FALSE, 0) \/ WorkersStopBegin(TRUE, n)
    \/ WorkersStopEnd
    \/ RestartStopEnd
    \/ RestartStart
    \/ \E n \in 0..NumWorkers : RestartIdle(n)
    \/ \E w \in Workers : CoreStep(w)

SpecLaunch == Init /\ [][NextLaunch]_vars

\* One worker with store faults and every operator endpoint that writes videos.
NextAdmin ==
    \/ Lifespan
    \/ SoloStart
    \/ \E w \in Workers : CoreStep(w) \/ FaultStep(w)
    \/ StopJobs
    \/ ReconcileQueue
    \/ \E v \in Videos : RetryVideo(v) \/ DeleteVideo(v)
    \/ \E c \in Channels : DeleteChannel(c)

SpecAdmin == Init /\ [][NextAdmin]_vars

\* the same start over a store without a jobs row yet, its job status tracked
InitJobs ==
    /\ \E r \in 0..MaxRetriesBound : db = [InitDb(r) EXCEPT !.job = NoJob]
    /\ InitProcess

\* The job status endpoints beside the worker pool.
NextPause ==
    \/ Lifespan
    \/ \E n \in 0..NumWorkers : WorkersStart(n)
    \/ \E w \in Workers : CoreStep(w)
    \/ StartJobs
    \/ PauseJobs
    \/ ResumeJobs
    \/ StopJobs

SpecPause == InitJobs /\ [][NextPause]_vars

(* ------------------------------ logs table ----------------------------- *)
\* The rows of the logs table one by one, in insertion order: video_id, level,
\* message and timestamp. A message is the part [from, to) of the text its
\* writer formatted; timestamps and the clock count days.
MaxMessage == 4000
MaxClock == 3
MaxLogRows == 2

MessageLengths == {27, MaxMessage, MaxMessage + 1}
Messages == {[from |-> 0, to |-> n] : n \in MessageLengths}
message_len(m) == m.to - m.from

\* message[-4000:] if len(message) > 4000 else message
truncate_message(m) ==
    IF message_len(m) > MaxMessage THEN [from |-> m.to - MaxMessage, to |-> m.to] ELSE m

LogLevels == {"INFO", "WARN", "ERROR"}

\* Log(video_id=..., level=..., message=..., timestamp=datetime.utcnow())
Log(v, level, m, now) == [video_id |-> v, level |-> level, message |-> m, timestamp |-> now]

\* db.add(log_entry); db.commit()
add_log_entry(d, row) == [d EXCEPT !.log_rows = Append(@, row)]

\* the points of log() at which the store can fail
LogFaults == {"none", "session", "commit", "rollback", "close"}

\* log_to_db: True after the commit, False when the insert or the commit
\* raised and the rollback went through; an exception of the rollback leaves
\* the function
log_to_db_outcome(fault) ==
    CASE fault = "none" -> "True"
      [] fault = "close" -> "True"
      [] fault = "commit" -> "False"
      [] fault = "rollback" -> "raise"
      [] fault = "session" -> "raise"

\* log() without the try around the session
log_outcome_unguarded(fault) ==
    IF log_to_db_outcome(fault) = "raise" \/ fault = "close" THEN "raise" ELSE "returned"

\* log(): get_db_session, log_to_db and db.close() run inside try/except
\* Exception, which writes one more line on the stream
log_outcome(fault) ==
    IF log_to_db_outcome(fault) = "raise" \/ fault = "close" THEN "console only" ELSE "returned"

\* log(level, message, video_id): the row of log_to_db when the store took it
log(d, level, m, v, now, fault) ==
    IF log_to_db_outcome(fault) = "True"
    THEN add_log_entry(d, Log(v, level, truncate_message(m), now))
    ELSE d

\* release_video, final failure: Log(level='ERROR',
\* message=f"Video permanently failed: {error_message}")
release_video_log_entry(d, v, m, now) == add_log_entry(d, Log(v, "ERROR", m, now))

\* SubtitleProcessor._log_message
log_message(d, v, level, m, now) == add_log_entry(d, Log(v, level, m, now))

\* ingest_channel_videos_sync, except branch: Log(video_id=None, level='ERROR',
\* message=error_msg)
ingest_log_entry(d, m, now) == add_log_entry(d, Log(NoVideo, "ERROR", m, now))

\* the days parameter of POST /jobs/cleanup
RetentionDays == {0, 1, 2, 365, 366}

\* DELETE FROM logs WHERE timestamp < :cutoff_date, with the boundary included
cleanup_old_logs_inclusive(d, now, days) ==
    [d EXCEPT !.log_rows = SelectSeq(@, LAMBDA row : ~(row.timestamp <= now - days))]

\* cleanup_old_logs: cutoff_date = utcnow() - timedelta(days);
\* DELETE FROM logs WHERE timestamp < :cutoff_date; commit
cleanup_old_logs(d, now, days) ==
    [d EXCEPT !.log_rows = SelectSeq(@, LAMBDA row : ~(row.timestamp < now - days))]

\* result.rowcount
cleanup_old_logs_count(d, now, days) ==
    Len(d.log_rows) - Len(cleanup_old_logs(d, now, days).log_rows)

LogsFrame ==
    UNCHANGED <<worker, STOP_EVENT, mgr, api, proc, ingest, claimCount, startStatus, recov, backoff>>

Answer(op, outcome, status, n) ==
    [op |-> op, arg |-> << >>, outcome |-> outcome, status |-> status, deleted_logs |-> n,
     value |-> 0]

\* a day passes
Tick ==
    /\ clock < MaxClock
    /\ clock' = clock + 1
    /\ UNCHANGED <<db, reply>>
    /\ LogsFrame

\* some component calls log(level, message, video_id)
LogCall(level, m, v, fault) ==
    /\ Len(db.log_rows) < MaxLogRows
    /\ db' = log(db, level, m, v, clock, fault)
    /\ reply' = Answer("log", log_outcome(fault), 0, 0)
    /\ UNCHANGED clock
    /\ LogsFrame

\* release_video writes the row of a final failure
ReleaseVideoLogs(v, m) ==
    /\ proc = "up"
    /\ Len(db.log_rows) < MaxLogRows
    /\ db' = release_video_log_entry(db, v, m, clock)
    /\ reply' = Answer("release_video", "returned", 0, 0)
    /\ UNCHANGED clock
    /\ LogsFrame

\* the subtitle processor writes a row
ProcessorLogs(v, level, m) ==
    /\ proc = "up"
    /\ Len(db.log_rows) < MaxLogRows
    /\ db' = log_message(db, v, level, m, clock)
    /\ reply' = Answer("_log_message", "returned", 0, 0)
    /\ UNCHANGED clock
    /\ LogsFrame

\* the ingestion task writes the row of its fatal error
IngestLogs(m) ==
    /\ proc = "up"
    /\ Len(db.log_rows) < MaxLogRows
    /\ db' = ingest_log_entry(db, m, clock)
    /\ reply' = Answer("ingest", "returned", 0, 0)
    /\ UNCHANGED clock
    /\ LogsFrame

\* POST /jobs/cleanup?days=N: the range test raises HTTPException(400) inside
\* the try, whose except Exception answers 500
CleanupLogs(days) ==
    /\ ApiReady
    /\ IF days < 1 \/ days > 365
       THEN /\ reply' = Answer("cleanup", "returned", 500, 0)
            /\ UNCHANGED db
       ELSE /\ db' = cleanup_old_logs(db, clock, days)
            /\ reply' = Answer("cleanup", "returned", 200,
                               cleanup_old_logs_count(db, clock, days))
    /\ UNCHANGED clock
    /\ LogsFrame

\* the DELETE or its commit fails: rollback, return 0
CleanupLogsFault(days) ==
    /\ ApiReady
    /\ days \in 1..365
    /\ reply' = Answer("cleanup", "rolled back", 200, 0)
    /\ UNCHANGED <<db, clock>>
    /\ LogsFrame

\* The writers of the logs table and its cleanup.
NextLogRows ==
    \/ Lifespan
    \/ Tick
    \/ \E level \in {"INFO", "ERROR"}, m \in Messages, fault \in LogFaults :
          LogCall(level, m, 1, fault)
    \/ \E m \in Messages : ReleaseVideoLogs(1, m)
    \/ \E m \in Messages : ProcessorLogs(1, "WARN", m)
    \/ \E m \in Messages : IngestLogs(m)
    \/ \E days \in RetentionDays : CleanupLogs(days) \/ CleanupLogsFault(days)

\* the settings row holds the greatest max_retries
InitLogRows ==
    /\ db = InitDb(MaxRetriesBound)
    /\ InitProcess

SpecLogRows == InitLogRows /\ [][NextLogRows]_vars

\* classify_yt_dlp_error(str(e)) on an error text
ClassifyCall(text) ==
    /\ proc = "up"
    /\ reply' = [Answer("classify", classify_indicators(TextMarkers(text)), 0, 0)
                    EXCEPT !.arg = text]
    /\ UNCHANGED <<db, clock>>
    /\ LogsFrame

\* The error classifier on its own.
NextClassify ==
    \/ Lifespan
    \/ \E text \in Texts : ClassifyCall(text)

SpecClassify == InitLogRows /\ [][NextClassify]_vars

\* the arguments of get_retry_delay: attempts of a video, and the
\* backoff_factor values the settings endpoint accepts
MaxDelayAttempts == 8
BackoffFactors == 1..10

\* worker.get_retry_delay(attempts, backoff_factor)
RetryDelayCall(attempts, backoff_factor) ==
    /\ reply' = [Answer("get_retry_delay", "returned", 0, 0)
                    EXCEPT !.arg = <<attempts, backoff_factor>>,
                           !.value = get_retry_delay(attempts, backoff_factor)]
    /\ UNCHANGED <<db, clock>>
    /\ LogsFrame

\* The retry delay on its own.
NextDelay ==
    \/ Lifespan
    \/ \E attempts \in 0..MaxDelayAttempts, backoff_factor \in BackoffFactors :
          RetryDelayCall(attempts, backoff_factor)

SpecDelay == InitLogRows /\ [][NextDelay]_vars

\* an empty store: no channel, no video, the ingestor's log rows counted
InitEmpty ==
    /\ \E r \in 0..MaxRetriesBound :
          db = [InitDb(r) EXCEPT
                  !.status = [v \in Videos |-> Absent],
                  !.url = [v \in Videos |-> 0],
                  !.channel_id = [v \in Videos |-> 0],
                  !.channel_name = [c \in Channels |-> NoChannel],
                  !.total_videos = [c \in Channels |-> 0],
                  !.logs = NoLogs]
    /\ InitProcess

\* Channel creation and the detached ingestion tasks.
NextIngest ==
    \/ Lifespan
    \/ \E c \in Channels : IngestStep(c) \/ IngestFault(c)

SpecIngest == InitEmpty /\ [][NextIngest]_vars

\* The settings endpoint on its own.
NextSettings ==
    \/ Lifespan
    \/ \E req \in SettingsUpdate : PostSettings(req)

SpecSettings == Init /\ [][NextSettings]_vars

\* one worker with every fault, over a store that counts its log rows
NextLogs ==
    \/ Lifespan
    \/ SoloStart
    \/ \E w \in Workers : WorkerStep(w)

SpecLogs == InitLogged /\ [][NextLogs]_vars

\* Kills and restarts around one worker thread that runs whenever it can:
\* a started thread takes its next step, the startup of a booting process
\* goes on to its end.
NextLive ==
    \/ Crash
    \/ Lifespan
    \/ SoloStart
    \/ \E w \in Workers : WorkerStep(w)

SpecLive ==
    /\ Init
    /\ [][NextLive]_vars
    /\ WF_vars(Lifespan)
    /\ \A w \in Workers : WF_vars(WorkerStep(w))

TypeOK ==
    /\ db.status \in [Videos -> Status \cup {Absent}]
    /\ \A v \in Videos : db.attempts[v] \in 0..MaxAttempts
    /\ db.subs \subseteq Videos
    /\ db.url \in [Videos -> Urls \cup {0}]
    /\ db.channel_id \in [Videos -> Channels \cup {0}]
    /\ db.channel_name \in [Channels -> ChannelNames \cup {NoChannel}]
    /\ \A c \in Channels : ingest[c].todo \subseteq Urls /\ ingest[c].pending \subseteq Urls
    /\ db.max_retries \in 0..10
    /\ db.max_workers \in 1..20
    /\ db.backoff_factor \in 1..10
    /\ db.job \in JobStatus \cup {NoJob, JobOff}
    /\ db.logs = LogsOff \/ db.logs \in [Videos \cup {NoVideo} -> [WARN : Nat, ERROR : Nat]]
    /\ Len(db.log_rows) <= MaxLogRows
    /\ \A i \in 1..Len(db.log_rows) :
          /\ db.log_rows[i].level \in LogLevels
          /\ db.log_rows[i].timestamp \in 0..clock
    /\ clock \in 0..MaxClock
    /\ reply.status \in {0, 200, 500}
    /\ \A w \in Workers : worker[w].vid \in Videos \cup {NoVideo}
    /\ mgr.workers \subseteq Workers

(* ------------------------------ properties ----------------------------- *)
\* C1 (single-claim): between two moments at which a video is pending, its id
\* is returned by claim_next_video to at most one caller.
SingleClaim == \A v \in Videos : claimCount[v] <= 1

\* two callers selected the same video; one has it, the other is about to
\* run its UPDATE and find no row
SingleClaimRace ==
    \E v \in Videos : \E w1, w2 \in Workers :
        /\ w1 # w2
        /\ worker[w1].pc = "claimed" /\ worker[w1].vid = v
        /\ worker[w2].pc = "update" /\ worker[w2].vid = v
        /\ claimCount[v] = 1

\* C2 (I3): no video is held, claimed and not yet released, by two workers at
\* the same time.
NoDoubleHold ==
    \A v \in Videos : \A w1, w2 \in Workers :
        (Holds(w1, v) /\ Holds(w2, v)) => w1 = w2

\* C3 (FIFO): a claim that succeeds returns the lowest id among the videos
\* pending at the moment of the claim.
FifoClaim ==
    [][\A w \in Workers :
          (worker[w].pc = "update" /\ worker'[w].pc = "claimed")
              => worker[w].vid = claim_select(db)]_vars

\* C4 (retry bound): a transient failure that leaves the video with fewer than
\* max_retries attempts puts it back to pending, it does not fail it.
RetryBound ==
    [][\A w \in Workers :
          (FetchNone(w, "transient_error")
             /\ db.attempts[worker[w].vid] + 1 < db.max_retries)
              => db'.status[worker[w].vid] = "pending"]_vars

\* C5: processing that ends in a permanent failure leaves the video failed,
\* whatever its attempts and max_retries are.
PermanentFailureFails ==
    [][\A w \in Workers :
          /\ \A o \in {"no_subtitles", "permanent_error"} :
                FetchNone(w, o) => db'.status[worker[w].vid] = "failed"
          /\ (HandleWorkerException(w)
                /\ classify_yt_dlp_error(worker[w].err) = "PermanentError")
                => db'.status[worker[w].vid] = "failed"]_vars

\* a video failed for want of subtitles while its retry budget was not used up
PermanentFailureUnderBudget ==
    \E v \in Videos :
        /\ db.status[v] = "failed"
        /\ db.last_error[v] = MsgNoSubs
        /\ db.attempts[v] < db.max_retries

\* C6: release_video(v, 'failed', err) adds one to attempts, stores err, sets
\* pending when the new attempts is below max_retries and failed otherwise,
\* and leaves every other row alone.
ReleaseFailedEffect ==
    [][\A w \in Workers :
          LET v == worker[w].vid
              err == IF worker[w].pc = "except" THEN worker[w].err ELSE MsgCritical IN
          ((ProcessorExcept(w, FALSE) /\ is_transient_error(worker[w].err))
              \/ CriticalRelease(w))
          =>
          /\ db'.attempts[v] = db.attempts[v] + 1
          /\ db'.last_error[v] = err
          /\ db'.status[v] =
                IF db.attempts[v] + 1 < db.max_retries THEN "pending" ELSE "failed"
          /\ db'.completed_at[v] = db.completed_at[v]
          /\ \A u \in Videos \ {v} :
                /\ db'.status[u] = db.status[u]
                /\ db'.attempts[u] = db.attempts[u]
                /\ db'.last_error[u] = db.last_error[u]
                /\ db'.completed_at[u] = db.completed_at[u]]_vars

\* a video released twice by run's outer handler: requeued at attempts 1,
\* failed at attempts 2 = max_retries
ReleasedUntilFailed ==
    \E v \in Videos :
        /\ db.status[v] = "failed"
        /\ db.last_error[v] = MsgCritical
        /\ db.attempts[v] = 2
        /\ db.max_retries = 2

\* C7: the worker's success path leaves a completed video with completed_at
\* set and last_error null.
CompletedClean ==
    [][\A w \in Workers :
          MarkVideoCompleted(w)
              => /\ db'.completed_at[worker[w].vid]
                 /\ db'.last_error[worker[w].vid] = Null]_vars

FailedStaysFailed ==
    [][\A v \in Videos :
          ((Lifespan \/ SoloStart) /\ db.status[v] = "failed")
              => /\ db'.status[v] = "failed"
                 /\ db'.attempts[v] = db.attempts[v]
                 /\ db'.last_error[v] = db.last_error[v]]_vars

\* C9 (amended): no step of startup moves a failed video to pending or
\* processing or changes its attempts or last_error; it leaves failed only
\* when it carries a subtitle row, and then for completed.
FailedNotResurrected ==
    [][\A v \in Videos :
          ((Lifespan \/ SoloStart) /\ db.status[v] = "failed")
              => /\ db'.status[v] = IF v \in db.subs /\ proc = "recovered"
                                    THEN "completed" ELSE "failed"
                 /\ db'.attempts[v] = db.attempts[v]
                 /\ db'.last_error[v] = db.last_error[v]]_vars

\* after a restart, before any launch: one failed row untouched, and a row
\* that was failed at the kill now completed by the reconcile step
FailedAcrossRestart ==
    /\ proc = "up"
    /\ recov.launch = {}
    /\ \E v \in Videos :
          /\ startStatus[v] = "failed"
          /\ db.status[v] = "completed"
          /\ db.last_error[v] # Null
    /\ \E u \in Videos :
          /\ startStatus[u] = "failed"
          /\ db.status[u] = "failed"
          /\ db.attempts[u] > 0

\* C10 (as stated): every launch of workers comes after all three recovery
\* steps, run since the previous launch.
RecoveryBeforeEveryLaunch ==
    \A w \in Workers : worker[w].pc # "dead" => recov.launch = RecoverySteps

\* C10 (amended): no worker runs before lifespan has completed all three
\* recovery steps in this process.
RecoveryBeforeFirstLaunch ==
    \A w \in Workers : worker[w].pc # "dead" => recov.boot = RecoverySteps

\* a worker holds a claim after a launch that ran no reconcile of its own
ClaimAfterPartialRecovery ==
    \E w \in Workers :
        /\ worker[w].pc = "claimed"
        /\ recov.boot = RecoverySteps
        /\ recov.launch # RecoverySteps

\* C11: reconcile_video_statuses leaves every video that has a subtitle row
\* completed with completed_at set, and leaves the status, attempts and
\* last_error of every video without a subtitle row as they were.
ReconcileEffect ==
    LET d2 == reconcile_video_statuses(db) IN
    \A v \in Videos :
        /\ v \in db.subs => (d2.status[v] = "completed" /\ d2.completed_at[v])
        /\ v \notin db.subs =>
              /\ d2.status[v] = db.status[v]
              /\ d2.attempts[v] = db.attempts[v]
              /\ d2.last_error[v] = db.last_error[v]

\* lifespan's reconcile has completed a video killed between the save and
\* the completion, next to a failed video without subtitles
ReconciledAtBoot ==
    /\ proc = "up"
    /\ recov.launch = {}
    /\ \E v \in db.subs :
          /\ startStatus[v] = "processing"
          /\ db.status[v] = "completed"
          /\ db.completed_at[v]
    /\ \E u \in Videos \ db.subs : db.status[u] = "failed"

\* C12: a second reconcile_video_statuses right after the first changes
\* nothing in the videos table and reports 0 videos.
ReconcileIdempotent ==
    LET d1 == reconcile_video_statuses(db)
        d2 == reconcile_video_statuses(d1) IN
    /\ d2 = d1
    /\ reconcile_rowcount(d1) = 0

\* lifespan's reconcile has completed a requeued video that had its subtitle;
\* a reconcile run now finds no row
ReconciledNothingLeft ==
    /\ proc = "up"
    /\ recov.launch = {}
    /\ \E v \in db.subs :
          /\ startStatus[v] = "pending"
          /\ db.status[v] = "completed"
    /\ reconcile_rowcount(db) = 0

\* C13: a completed video has a subtitle row.
NoPhantomCompletion ==
    \A v \in Videos : db.status[v] = "completed" => v \in db.subs

\* a completed video with its subtitle, next to a deleted video for which a
\* worker saved a subtitle after the deletion
CompletedBesideDeleted ==
    /\ \E v \in db.subs : db.status[v] = "completed"
    /\ \E u \in db.subs : db.status[u] = Absent

\* C14: operator retry of a failed video makes it pending with attempts 0 and
\* last_error null; on a pending, processing or completed video it answers
\* with an error and leaves status, attempts and last_error as they were.
RetryContract ==
    [][\A v \in Videos :
          RetryVideo(v) =>
              IF db.status[v] = "failed"
              THEN /\ retry_video_response(db, v) = 200
                   /\ db'.status[v] = "pending"
                   /\ db'.attempts[v] = 0
                   /\ db'.last_error[v] = Null
              ELSE /\ retry_video_response(db, v) >= 400
                   /\ db'.status[v] = db.status[v]
                   /\ db'.attempts[v] = db.attempts[v]
                   /\ db'.last_error[v] = db.last_error[v]]_vars

\* a video that was completed, then failed, is pending again with a clean
\* record: only the operator's retry clears last_error
RetriedAfterFailure ==
    \E v \in Videos :
        /\ db.status[v] = "pending"
        /\ db.attempts[v] = 0
        /\ db.last_error[v] = Null
        /\ db.completed_at[v]

\* C15 (scenario S2): with max_retries = R, each of the k < R transient failures
\* of a video puts it back to pending with one more attempt and exactly one
\* more WARN row and no ERROR row tagged with its id, and the success that
\* follows completes it with attempts and log rows as they are: completed,
\* attempts = k, k WARN rows, no ERROR row.
TransientRetryLogged ==
    [][\A w \in Workers :
          LET v == worker[w].vid IN
          /\ (FetchNone(w, "transient_error")
                /\ db.attempts[v] + 1 < db.max_retries)
                => /\ db'.status[v] = "pending"
                   /\ db'.attempts[v] = db.attempts[v] + 1
                   /\ db'.logs[v] = [db.logs[v] EXCEPT !.WARN = @ + 1]
          /\ MarkVideoCompleted(w)
                => /\ db'.status[v] = "completed"
                   /\ db'.attempts[v] = db.attempts[v]
                   /\ db'.logs[v] = db.logs[v]]_vars

\* C16 (scenario S3): a permanent failure of a video that had attempts 0 leaves
\* it failed with attempts 1 and adds exactly one ERROR row tagged with its id.
PermanentFailureLogged ==
    [][\A w \in Workers :
          LET v == worker[w].vid
              permanent ==
                  \/ FetchNone(w, "permanent_error")
                  \/ /\ HandleWorkerException(w)
                     /\ classify_yt_dlp_error(worker[w].err) = "PermanentError"
          IN (permanent /\ db.attempts[v] = 0)
                => /\ db'.status[v] = "failed"
                   /\ db'.attempts[v] = 1
                   /\ db'.logs[v].ERROR = db.logs[v].ERROR + 1]_vars

\* C17 (liveness): while a worker keeps running (the process is not killed
\* for ever again and a worker thread is running again and again), every
\* pending video is eventually claimed and eventually reaches status
\* completed or failed, also after a kill and restart.
EveryVideoSettles ==
    LET WorkerKeepsRunning ==
            /\ <>[][~Crash]_vars
            /\ []<>(\E w \in Workers : worker[w].running)
    IN WorkerKeepsRunning =>
          \A v \in Videos :
              (db.status[v] = "pending") ~> (db.status[v] \in {"completed", "failed"})

StoppedNothingProcessing ==
    (proc = "up" /\ api.pc = "idle" /\ STOP_EVENT /\ ~mgr.running)
        => \A v \in Videos : db.status[v] # "processing"

\* C20 (pause): while the job status is paused, no worker claims a new video.
NoClaimWhilePaused ==
    [][\A w \in Workers :
          (worker[w].pc = "update" /\ worker'[w].pc = "claimed")
              => db.job # "paused"]_vars

\* C21 (settings validation): POST /jobs/settings with any field outside its
\* range is answered with a 4xx status and leaves the settings row entirely
\* unchanged, also in the fields of the request that were in range.
SettingsRejected ==
    \A req \in SettingsUpdate :
        (proc = "up" /\ settings_out_of_range(req))
            => /\ update_settings_status(db, req) \in 400..499
               /\ update_settings(db, req) = db

\* C22 (url uniqueness): ingestion never leaves two video rows with the same
\* url, and a row that exists keeps its url and its channel_id, also when two
\* ingestion tasks whose listings share a url run at the same time.
UrlStaysUnique ==
    [][/\ \A v1, v2 \in VideoRows(db') : db'.url[v1] = db'.url[v2] => v1 = v2
       /\ \A v \in VideoRows(db) :
             /\ v \in VideoRows(db')
             /\ db'.url[v] = db.url[v]
             /\ db'.channel_id[v] = db.channel_id[v]]_vars

\* two tasks had the same url to add: one committed its row, the commit of
\* the other one was refused
SharedUrlRefused ==
    \E c1, c2 \in Channels : \E u \in Urls :
        /\ c1 # c2
        /\ \E v \in video_by_url(db, u) : db.channel_id[v] = c1
        /\ ingest[c2].pc = "fatal"
        /\ u \in ingest[c2].pending

\* C23 (ingestion completes): for a new channel whose listing has n urls that
\* no other channel lists, once its ingestion task has returned the store
\* holds n pending videos with attempts 0 for the channel and the channel's
\* total_videos is n, however the request's commit and the task interleave.
IngestedAll ==
    \A c \in Channels :
        (ingest[c].pc = "done"
           /\ \A c2 \in Channels \ {c} : ingest[c2].listing \cap ingest[c].listing = {})
        => /\ \A u \in ingest[c].listing :
                 \E v \in video_by_url(db, u) :
                     /\ db.channel_id[v] = c
                     /\ db.status[v] = "pending"
                     /\ db.attempts[v] = 0
           /\ channel_video_count(db, c) = Cardinality(ingest[c].listing)
           /\ db.total_videos[c] = Cardinality(ingest[c].listing)

\* C24 (ingestion status): from the creation of a channel until its ingestion
\* task has finished, GET /channels/{id}/ingestion-status answers loading;
\* completed or failed is answered only after the task has finished.
LoadingUntilFinished ==
    \A c \in Channels :
        (db.channel_name[c] # NoChannel /\ ~TaskFinished(c))
            => ingestion_status(db, c) = "loading"

\* C25 (fatal ingestion error): when the ingestion task hits a fatal error at
\* any step, the channel's name is set to the failure name and one ERROR log
\* row is appended.
FatalMarksChannel ==
    [][\A c \in Channels :
          TaskFatal(c)
              => /\ db'.channel_name[c] = "Failed to load"
                 /\ db'.logs[NoVideo].ERROR = db.logs[NoVideo].ERROR + 1]_vars

\* C26 (log cleanup): cleanup_old_logs(N), for N in the range the endpoint
\* accepts, deletes exactly the log rows whose timestamp is earlier than now
\* minus N days, returns their number, and leaves every other log row and
\* every other table as it was.
CleanupDeletesOld ==
    \A days \in RetentionDays \cap 1..365 :
        LET OldLogs == {i \in 1..Len(db.log_rows) : db.log_rows[i].timestamp < clock - days}
            NthOf(K, j) == CHOOSE i \in K : Cardinality({k \in K : k <= i}) = j
            d2 == cleanup_old_logs(db, clock, days)
            kept == (1..Len(db.log_rows)) \ OldLogs IN
        /\ Len(d2.log_rows) = Cardinality(kept)
        /\ \A j \in 1..Len(d2.log_rows) : d2.log_rows[j] = db.log_rows[NthOf(kept, j)]
        /\ cleanup_old_logs_count(db, clock, days) = Cardinality(OldLogs)
        /\ [d2 EXCEPT !.log_rows = db.log_rows] = db

\* a cleanup has deleted a row and kept a row written on the day of the cutoff
CleanupKeptCutoffDay ==
    /\ reply.op = "cleanup" /\ reply.status = 200 /\ reply.deleted_logs = 1
    /\ Len(db.log_rows) = 1
    /\ \E days \in RetentionDays : days >= 1 /\ db.log_rows[1].timestamp = clock - days

\* C27 (logging never throws): log(level, message, video_id) never raises to
\* its caller; when the insert into the logs table fails the failure goes to
\* the process log stream only, no log row is added and the store is as it was.
LogNeverRaises ==
    /\ reply.op = "log" => reply.outcome \in {"returned", "console only"}
    /\ \A level \in LogLevels, m \in Messages, v \in Videos \cup {NoVideo}, fault \in LogFaults :
          /\ log_outcome(fault) \in {"returned", "console only"}
          /\ log_to_db_outcome(fault) # "True"
                => log(db, level, m, v, clock, fault) = db

\* a call of log() whose insert failed has returned and the table is empty
LogFailedQuietly ==
    /\ reply.op = "log" /\ reply.outcome = "console only"
    /\ db.log_rows = << >>

\* C28 (bounded log rows): every row of the logs table has a message of at
\* most 4000 characters, the trailing 4000 of the text its writer formatted,
\* whichever component wrote it.
LogMessageBounded ==
    \A i \in 1..Len(db.log_rows) :
        LET m == db.log_rows[i].message IN
        /\ message_len(m) <= MaxMessage
        /\ \E text \in Messages : m = truncate_message(text)

NoSessionDuringFetch ==
    \A w \in Workers : extractor_call_in_progress(w) => open_sessions(w) = {}

\* C31 (completed at most once): once a video has status completed it is never
\* claimed again and its status never changes to pending, processing or
\* failed, also when processing rows were reset to pending while a worker
\* still held them.
CompletedStays ==
    [][\A v \in Videos :
          db.status[v] = "completed"
              => /\ db'.status[v] = "completed"
                 /\ \A w \in Workers :
                       (worker'[w].pc = "claimed" /\ worker'[w].vid = v)
                           => (worker[w].pc = "claimed" /\ worker[w].vid = v)]_vars

\* C32 (backoff before the next claim): after a worker's processing of a video
\* has ended in a transient failure, that worker does not call
\* claim_next_video before it has slept min(backoff_factor ^ attempts, 300)
\* seconds, attempts being the video's attempts after the release.
SleepsBeforeNextClaim ==
    [][\A w \in Workers :
          (worker[w].pc = "claim" /\ worker'[w].pc # "claim") => backoff[w] = 0]_vars

OutageIsTransient ==
    reply.op = "classify"
        => /\ (\A i \in 1..2 : reply.arg[i] \in {"Service unavailable", "503 Service Unavailable",
                                                  "502 Bad Gateway"})
                 => reply.outcome = "TransientError"
           /\ (\A i \in 1..2 : reply.arg[i] = "Video unavailable")
                 => reply.outcome = "PermanentError"

\* C35 (the two classifiers agree): on every error message
\* is_transient_error(e) is true exactly when classify_yt_dlp_error(str(e)) is
\* TransientError.
ClassifiersAgree ==
    reply.op = "classify"
        => (is_transient_indicators(TextMarkers(reply.arg))
               <=> reply.outcome = "TransientError")

\* C36 (frame of the claim): a call of claim_next_video changes at most one
\* video row and only its status, from pending to processing; every other
\* field of that row and every other row are unchanged, and a call that
\* returns None (empty queue, lost race, store error) changes nothing.
ClaimChangesStatusOnly ==
    [][\A w \in Workers :
          LET v == worker[w].vid IN
          /\ (worker[w].pc = "claim" /\ worker'[w].pc # "claim") => db' = db
          /\ (worker[w].pc = "update" /\ worker'[w].pc = "loop") => db' = db
          /\ (worker[w].pc = "update" /\ worker'[w].pc = "claimed")
                => /\ db.status[v] = "pending"
                   /\ db' = [db EXCEPT !.status[v] = "processing"]]_vars

\* a claim has returned a video while another row holds the attempts and the
\* last_error of a failure
ClaimedBesideFailure ==
    \E w \in Workers : \E v2 \in Videos \ {worker[w].vid} :
        /\ worker[w].pc = "claimed"
        /\ db.status[worker[w].vid] = "processing"
        /\ db.status[v2] = "failed"
        /\ db.attempts[v2] = 1
        /\ db.last_error[v2] = MsgNoSubs

\* C37 (attempts count the failures): a video's attempts is never negative and
\* counts its failed processing attempts since the last reset: the end of a
\* worker's processing of a video adds exactly one to attempts when the
\* attempt failed, on every error path, and leaves attempts as it was when it
\* succeeded; no other step of a worker changes it.
AttemptsCountFailures ==
    [][\A w \in Workers :
          LET v == worker[w].vid
              ended == worker[w].pc \in Holding \ {"claimed"} /\ worker'[w].pc = "loop" IN
          /\ \A u \in Videos : db'.attempts[u] >= 0
          /\ (ended /\ worker[w].pc = "saved") => db'.attempts[v] = db.attempts[v]
          /\ (ended /\ worker[w].pc # "saved") => db'.attempts[v] = db.attempts[v] + 1
          /\ (worker'[w] # worker[w] /\ ~ended) => db'.attempts = db.attempts]_vars

\* C38 (pool size): after any sequence of start, stop and restart calls the
\* number of worker threads that can still claim videos is at most the n of
\* the most recent start; a start issued while workers are running adds none.
PoolWithinLastStart ==
    mgr.running
        => Cardinality({w \in Workers : worker[w].pc # "dead" /\ worker[w].running})
               <= mgr.num_workers

\* C39 (release before next claim): whenever a worker ends an iteration of its
\* loop on a video it claimed, on the success path or on any error path, that
\* video (if its row still exists) has status completed, pending or failed.
ReleasedAtIterationEnd ==
    [][\A w \in Workers :
          (/\ worker[w].pc \in Holding
           /\ worker'[w].pc = "loop"
           /\ db'.status[worker[w].vid] # Absent)
              => db'.status[worker[w].vid] \in {"completed", "pending", "failed"}]_vars

\* C40 (referential integrity): in every reachable state every subtitle row
\* refers to an existing video and every video to an existing channel, also
\* when a channel or a video is deleted while a worker is processing it.
NoOrphanRows ==
    /\ \A v \in db.subs : db.status[v] # Absent
    /\ \A v \in VideoRows(db) :
          /\ db.channel_id[v] \in Channels
          /\ db.channel_name[db.channel_id[v]] # NoChannel
====
